---- MODULE Spec2Model ----
(***************************************************************************)
(* Model of the correlator support headers: the strided vector kernels of  *)
(* correlator/blas.h (blas_scal, blas_dotc_sub) and, from the common      *)
(* header, the FFTW wisdom loader read_wisdom, the sinc kernel and abs2.   *)
(*                                                                         *)
(* Samples are complex numbers with integer parts.  Every value the model  *)
(* reaches is a small integer, which float and double represent exactly,   *)
(* so the arithmetic of the kernels is modelled without rounding.          *)
(***************************************************************************)
EXTENDS Integers, Sequences, FiniteSets, TLC

VARIABLES
    \* the vector kernels: the caller's buffer, the buffer as it was when the
    \* calls began, each thread's activation record, and whether some step
    \* was taken while another thread was inside its call
    mem, mem0, th, raced,
    \* read_wisdom: the files on disk, the position in the caller and in
    \* read_wisdom, its arguments and locals, the open FILE handles, the
    \* external calls made so far and the objects added to the module
    fs, wpc, filename, status, wisdomfile, openFiles, calls, attrs,
    \* sinc: the position, the argument, the overload, the returned value
    \* and the number of evaluations of the quotient
    spc, sx, sprec, sret, quotEvals

kernelVars == <<mem, mem0, th, raced>>

wisdomVars == <<fs, wpc, filename, status, wisdomfile, openFiles, calls, attrs>>

sincVars == <<spc, sx, sprec, sret, quotEvals>>

vars == <<kernelVars, wisdomVars, sincVars>>

----------------------------------------------------------------------------
(* Bounds of the model *)

\* number of elements of the caller's backing buffer
MemLen == 4
\* largest element count N passed to a kernel
MaxN == 2
\* largest magnitude of a finite argument of sinc, in halves
MaxMag == 10

Cells == 0 .. (MemLen - 1)
Counts == 0 .. MaxN
Strides == {-2, -1, 0, 1, 2}
Threads == {1, 2}

----------------------------------------------------------------------------
(* std::complex<T> *)

C(a, b) == [re |-> a, im |-> b]

Zero == C(0, 0)

\* what a location holds before the kernel has assigned it
Poison == C(-99, -99)

CAdd(x, y) == C(x.re + y.re, x.im + y.im)

CMul(x, y) == C(x.re * y.re - x.im * y.im, x.re * y.im + x.im * y.re)

conj(x) == C(x.re, 0 - x.im)

abs2(z) == z.re * z.re + z.im * z.im

----------------------------------------------------------------------------
(* Inputs *)

Vals == {C(1, 2), C(0, -1), C(-2, 0)}

Alphas == {C(0, 0), C(1, 0), C(0, 1), C(2, -1)}

\* the buffer of the worked scenario: X = [1+2i, 3-1i] at cells 0, 1 and
\* Y = [2+0i, 0+1i] at cells 2, 3
ScenarioMem ==
    [k \in Cells |-> IF k = 0 THEN C(1, 2)
                     ELSE IF k = 1 THEN C(3, -1)
                     ELSE IF k = 2 THEN C(2, 0)
                     ELSE IF k = 3 THEN C(0, 1)
                     ELSE C(-1, 1)]

Mems == [Cells -> Vals] \cup {ScenarioMem}

\* the N elements a view (base X0, count N, stride inc) addresses
Offsets(X0, N, inc) == {X0 + i * inc : i \in 0 .. (N - 1)}

\* the caller's contract: the base and every addressed element lie in the buffer
ValidView(X0, N, inc) == X0 \in Cells /\ Offsets(X0, N, inc) \subseteq Cells

----------------------------------------------------------------------------
(* Activation records of the two kernels *)

ScalFrame(N, alpha, X0, incX) ==
    [op |-> "scal", N |-> N, alpha |-> alpha, X0 |-> X0, incX |-> incX,
     Y0 |-> 0, incY |-> 0,
     pc |-> "loop", i |-> 0, X |-> X0, Y |-> 0,
     tmp |-> Poison, accum |-> Poison, dotc |-> Poison, writes |-> 0,
     log |-> <<>>]

DotcFrame(N, X0, incX, Y0, incY) ==
    [op |-> "dotc", N |-> N, alpha |-> Zero, X0 |-> X0, incX |-> incX,
     Y0 |-> Y0, incY |-> incY,
     pc |-> "entry", i |-> 0, X |-> X0, Y |-> Y0,
     tmp |-> Poison, accum |-> Poison, dotc |-> Poison, writes |-> 0,
     log |-> <<>>]

ScalCalls ==
    {ScalFrame(N, a, X0, inc) : N \in Counts, a \in Alphas,
                                X0 \in Cells, inc \in Strides}

DotcCalls ==
    UNION {{DotcFrame(N, v[1], v[2], w[1], w[2]) :
                v \in Cells \X Strides, w \in Cells \X Strides} : N \in Counts}

ValidCall(f) ==
    /\ ValidView(f.X0, f.N, f.incX)
    /\ f.op = "dotc" => ValidView(f.Y0, f.N, f.incY)

----------------------------------------------------------------------------
(* blas_scal *)

\* the temporary of "*X *= alpha" kept in static storage, which every
\* thread inside blas_scal shares
ScalLoadStaticTmp(t) ==
    /\ th[t].op = "scal" /\ th[t].pc = "loop"
    /\ th[t].i < th[t].N
    /\ th' = [u \in DOMAIN th |->
                IF u = t
                THEN [th[u] EXCEPT !.tmp = mem[th[t].X], !.pc = "store"]
                ELSE [th[u] EXCEPT !.tmp = mem[th[t].X]]]
    /\ UNCHANGED <<mem, mem0>>

\* a loop that runs while i <= N: one element too many
ScalLoadOffByOne(t) ==
    /\ th[t].op = "scal" /\ th[t].pc = "loop"
    /\ th[t].i <= th[t].N
    /\ th' = [th EXCEPT ![t].tmp = mem[th[t].X], ![t].pc = "store"]
    /\ UNCHANGED <<mem, mem0>>

\* for(...; i<N; ...) taken, and the read of *X in "*X *= alpha"
ScalLoad(t) ==
    /\ th[t].op = "scal" /\ th[t].pc = "loop"
    /\ th[t].i < th[t].N
    /\ th' = [th EXCEPT ![t].tmp = mem[th[t].X], ![t].pc = "store"]
    /\ UNCHANGED <<mem, mem0>>

\* the write of *X in "*X *= alpha", then X += incX and i++
ScalStore(t) ==
    /\ th[t].op = "scal" /\ th[t].pc = "store"
    /\ mem' = [mem EXCEPT ![th[t].X] = CMul(th[t].tmp, th[t].alpha)]
    /\ th' = [th EXCEPT ![t].X = @ + th[t].incX,
                        ![t].i = @ + 1,
                        ![t].log = Append(@, th[t].X),
                        ![t].pc = "loop"]
    /\ UNCHANGED mem0

\* i<N fails: the function returns
ScalReturn(t) ==
    /\ th[t].op = "scal" /\ th[t].pc = "loop"
    /\ ~(th[t].i < th[t].N)
    /\ th' = [th EXCEPT ![t].pc = "done"]
    /\ UNCHANGED <<mem, mem0>>

----------------------------------------------------------------------------
(* blas_dotc_sub *)

\* OType accum = 0.0; and int i=0
DotcEnter(t) ==
    /\ th[t].op = "dotc" /\ th[t].pc = "entry"
    /\ th' = [th EXCEPT ![t].accum = Zero, ![t].i = 0, ![t].pc = "loop"]
    /\ UNCHANGED <<mem, mem0>>

\* the iteration with another statement in place of accum += conj(*X) * *Y
DotcStepWith(t, acc) ==
    /\ th[t].op = "dotc" /\ th[t].pc = "loop"
    /\ th[t].i < th[t].N
    /\ th' = [th EXCEPT
                ![t].accum = acc,
                ![t].X = @ + th[t].incX,
                ![t].Y = @ + th[t].incY,
                ![t].i = @ + 1,
                ![t].log = Append(@, <<th[t].X, th[t].Y>>)]
    /\ UNCHANGED <<mem, mem0>>

\* accum += *X * conj(*Y): the conjugate on the right operand
DotcStepConjRight(t) ==
    DotcStepWith(t, CAdd(th[t].accum,
                         CMul(mem[th[t].X], conj(mem[th[t].Y]))))

\* accum += *X * *Y: no conjugate
DotcStepNoConj(t) ==
    DotcStepWith(t, CAdd(th[t].accum, CMul(mem[th[t].X], mem[th[t].Y])))

\* accum = conj(*X) * *Y: assignment in place of accumulation
DotcStepAssign(t) ==
    DotcStepWith(t, CMul(conj(mem[th[t].X]), mem[th[t].Y]))

\* *dotc = accum moved into the loop body: out holds every partial sum
DotcStepWriteThrough(t) ==
    /\ th[t].op = "dotc" /\ th[t].pc = "loop"
    /\ th[t].i < th[t].N
    /\ LET a == CAdd(th[t].accum, CMul(conj(mem[th[t].X]), mem[th[t].Y]))
       IN th' = [th EXCEPT
                   ![t].accum = a,
                   ![t].dotc = a,
                   ![t].writes = @ + 1,
                   ![t].X = @ + th[t].incX,
                   ![t].Y = @ + th[t].incY,
                   ![t].i = @ + 1,
                   ![t].log = Append(@, <<th[t].X, th[t].Y>>)]
    /\ UNCHANGED <<mem, mem0>>

\* one iteration: accum += conj(*X) * *Y; X += incX; Y += incY; i++
DotcStep(t) ==
    /\ th[t].op = "dotc" /\ th[t].pc = "loop"
    /\ th[t].i < th[t].N
    /\ th' = [th EXCEPT
                ![t].accum = CAdd(@, CMul(conj(mem[th[t].X]), mem[th[t].Y])),
                ![t].X = @ + th[t].incX,
                ![t].Y = @ + th[t].incY,
                ![t].i = @ + 1,
                ![t].log = Append(@, <<th[t].X, th[t].Y>>)]
    /\ UNCHANGED <<mem, mem0>>

\* i<N fails: *dotc = accum; and return
DotcWrite(t) ==
    /\ th[t].op = "dotc" /\ th[t].pc = "loop"
    /\ ~(th[t].i < th[t].N)
    /\ th' = [th EXCEPT ![t].dotc = th[t].accum,
                        ![t].writes = @ + 1,
                        ![t].pc = "done"]
    /\ UNCHANGED <<mem, mem0>>

\* the whole of blas_dotc_sub as a function of its arguments, X read from
\* buffer mX and Y from buffer mY: the loop run from frame f to its exit
RECURSIVE DotcLoop(_, _, _)
DotcLoop(mX, mY, f) ==
    IF f.i < f.N
    THEN DotcLoop(mX, mY,
                  [f EXCEPT !.accum = CAdd(@, CMul(conj(mX[f.X]), mY[f.Y])),
                            !.X = @ + f.incX,
                            !.Y = @ + f.incY,
                            !.i = @ + 1])
    ELSE f.accum

blas_dotc_sub(mX, mY, N, X0, incX, Y0, incY) ==
    DotcLoop(mX, mY, [DotcFrame(N, X0, incX, Y0, incY) EXCEPT !.accum = Zero])

\* the whole of blas_scal as a function of the buffer and its arguments
RECURSIVE ScalLoop(_, _)
ScalLoop(m, f) ==
    IF f.i < f.N
    THEN ScalLoop([m EXCEPT ![f.X] = CMul(m[f.X], f.alpha)],
                  [f EXCEPT !.X = @ + f.incX, !.i = @ + 1])
    ELSE m

blas_scal(m, N, alpha, X0, incX) == ScalLoop(m, ScalFrame(N, alpha, X0, incX))

----------------------------------------------------------------------------
(* Specifications of the kernels *)

\* a thread that has begun its call and not returned from it
Active(f) ==
    /\ f.pc # "done"
    /\ \/ f.op = "scal" /\ (f.i > 0 \/ f.pc = "store")
       \/ f.op = "dotc" /\ f.pc # "entry"

\* what a step of thread t leaves alone, and the record of overlap
Race(t) ==
    /\ raced' = (raced \/ \E u \in DOMAIN th \ {t} : Active(th[u]))
    /\ UNCHANGED <<wisdomVars, sincVars>>

WisdomIdle ==
    /\ fs = <<>>
    /\ wpc = "idle"
    /\ filename = ""
    /\ status = 0
    /\ wisdomfile = "NULL"
    /\ openFiles = {}
    /\ calls = <<>>
    /\ attrs = <<>>

SincIdle ==
    /\ spc = "idle"
    /\ sx = [kind |-> "num", neg |-> FALSE, mag |-> 0]
    /\ sprec = "double"
    /\ sret = [how |-> "none", arg |-> sx, prec |-> sprec]
    /\ quotEvals = 0

KernelIdle ==
    /\ mem = ScenarioMem
    /\ mem0 = mem
    /\ th = <<>>
    /\ raced = FALSE

(* One call of blas_scal *)

InitScal ==
    /\ mem \in Mems
    /\ mem0 = mem
    /\ th \in [{1} -> {f \in ScalCalls : ValidCall(f)}]
    /\ raced = FALSE
    /\ WisdomIdle /\ SincIdle

NextScal ==
    \/ ScalLoad(1) /\ Race(1)
    \/ ScalStore(1) /\ Race(1)
    \/ ScalReturn(1) /\ Race(1)

SpecScal == InitScal /\ [][NextScal]_vars

(* One call of blas_dotc_sub *)

InitDotc ==
    /\ mem \in Mems
    /\ mem0 = mem
    /\ th \in [{1} -> {f \in DotcCalls : ValidCall(f)}]
    /\ raced = FALSE
    /\ WisdomIdle /\ SincIdle

NextDotc ==
    \/ DotcEnter(1) /\ Race(1)
    \/ DotcStep(1) /\ Race(1)
    \/ DotcWrite(1) /\ Race(1)

SpecDotc == InitDotc /\ [][NextDotc]_vars

(* Two threads, each inside one kernel call on the same buffer.  The calls *)
(* have N = MaxN elements and a stride of -1, 1 or 2, so that views may be *)
(* disjoint, interleaved or overlapping.                                   *)

ConcStrides == {-1, 1, 2}

ConcAlphas == {C(0, 1), C(2, -1)}

ConcCalls ==
    {ScalFrame(MaxN, a, X0, inc) :
        a \in ConcAlphas, X0 \in Cells, inc \in ConcStrides}
    \cup
    {DotcFrame(MaxN, v[1], v[2], w[1], w[2]) :
        v \in Cells \X ConcStrides, w \in Cells \X ConcStrides}

InitConc ==
    /\ mem = ScenarioMem
    /\ mem0 = mem
    /\ th \in [Threads -> {f \in ConcCalls : ValidCall(f)}]
    /\ raced = FALSE
    /\ WisdomIdle /\ SincIdle

NextConc ==
    \E t \in Threads :
        \/ ScalLoad(t) /\ Race(t)
        \/ ScalStore(t) /\ Race(t)
        \/ ScalReturn(t) /\ Race(t)
        \/ DotcEnter(t) /\ Race(t)
        \/ DotcStep(t) /\ Race(t)
        \/ DotcWrite(t) /\ Race(t)

SpecConc == InitConc /\ [][NextConc]_vars

----------------------------------------------------------------------------
(* read_wisdom *)

Paths == {"wisdom_a", "wisdom_b", "wisdom_c"}

\* what may be at a path: nothing, a file that cannot be opened for
\* reading, a file that is not wisdom, a file of wisdom
FileKinds == {"missing", "unreadable", "corrupt", "valid"}

\* fopen(filename, "r"): a handle on the file, or NULL
fopen(p) == IF fs[p] \in {"corrupt", "valid"} THEN p ELSE "NULL"

\* fftwf_import_wisdom_from_file: 1 when the wisdom was read, 0 when not
fftwf_import_wisdom_from_file(h) == IF fs[h] = "valid" THEN 1 ELSE 0

\* PyBool_FromLong
PyBool_FromLong(v) == v # 0

Call(fn, ok) == [fn |-> fn, ok |-> ok]

wisdomRest == UNCHANGED <<kernelVars, sincVars>>

\* the module's initialisation calls read_wisdom(filename, m), once
CallReadWisdom ==
    /\ wpc = "startup"
    /\ wpc' = "entry"
    /\ UNCHANGED <<fs, filename, status, wisdomfile, openFiles, calls, attrs>>
    /\ wisdomRest

\* a failure branch that adds the flag itself and then falls through
WisdomOpenPublishEarly ==
    /\ wpc = "entry"
    /\ status' = 0
    /\ wisdomfile' = fopen(filename)
    /\ openFiles' = IF wisdomfile' # "NULL"
                    THEN openFiles \cup {wisdomfile'}
                    ELSE openFiles
    /\ calls' = Append(calls, Call("fopen", wisdomfile' # "NULL"))
    /\ attrs' = IF wisdomfile' # "NULL"
                THEN attrs
                ELSE Append(attrs, [name |-> "useWisdom", value |-> FALSE])
    /\ wpc' = IF wisdomfile' # "NULL" THEN "import" ELSE "publish"
    /\ UNCHANGED <<fs, filename>>
    /\ wisdomRest

\* int status = 0; wisdomfile = fopen(filename, "r"); if( wisdomfile != NULL )
WisdomOpen ==
    /\ wpc = "entry"
    /\ status' = 0
    /\ wisdomfile' = fopen(filename)
    /\ openFiles' = IF wisdomfile' # "NULL"
                    THEN openFiles \cup {wisdomfile'}
                    ELSE openFiles
    /\ calls' = Append(calls, Call("fopen", wisdomfile' # "NULL"))
    /\ wpc' = IF wisdomfile' # "NULL" THEN "import" ELSE "publish"
    /\ UNCHANGED <<fs, filename, attrs>>
    /\ wisdomRest

\* the import called for its effect, its result dropped: status = 1
WisdomImportIgnoreResult ==
    /\ wpc = "import"
    /\ status' = 1
    /\ calls' = Append(calls,
                       Call("fftwf_import_wisdom_from_file",
                            fftwf_import_wisdom_from_file(wisdomfile) # 0))
    /\ wpc' = "fclose"
    /\ UNCHANGED <<fs, filename, wisdomfile, openFiles, attrs>>
    /\ wisdomRest

\* a failed import that leaves the branch before fclose
WisdomImportSkipClose ==
    /\ wpc = "import"
    /\ status' = fftwf_import_wisdom_from_file(wisdomfile)
    /\ calls' = Append(calls,
                       Call("fftwf_import_wisdom_from_file", status' # 0))
    /\ wpc' = IF status' # 0 THEN "fclose" ELSE "publish"
    /\ UNCHANGED <<fs, filename, wisdomfile, openFiles, attrs>>
    /\ wisdomRest

\* status = fftwf_import_wisdom_from_file(wisdomfile);
WisdomImport ==
    /\ wpc = "import"
    /\ status' = fftwf_import_wisdom_from_file(wisdomfile)
    /\ calls' = Append(calls,
                       Call("fftwf_import_wisdom_from_file", status' # 0))
    /\ wpc' = "fclose"
    /\ UNCHANGED <<fs, filename, wisdomfile, openFiles, attrs>>
    /\ wisdomRest

\* fclose(wisdomfile);
WisdomClose ==
    /\ wpc = "fclose"
    /\ openFiles' = openFiles \ {wisdomfile}
    /\ calls' = Append(calls, Call("fclose", TRUE))
    /\ wpc' = "publish"
    /\ UNCHANGED <<fs, filename, status, wisdomfile, attrs>>
    /\ wisdomRest

\* PyModule_AddObject(m, "useWisdom", PyBool_FromLong(status)); and return
WisdomPublish ==
    /\ wpc = "publish"
    /\ attrs' = Append(attrs, [name |-> "useWisdom",
                               value |-> PyBool_FromLong(status)])
    /\ calls' = Append(calls, Call("PyModule_AddObject", TRUE))
    /\ wpc' = "done"
    /\ UNCHANGED <<fs, filename, status, wisdomfile, openFiles>>
    /\ wisdomRest

InitWisdom ==
    /\ fs \in [Paths -> FileKinds]
    /\ filename \in Paths
    /\ wpc = "startup"
    /\ status = 0
    /\ wisdomfile = "NULL"
    /\ openFiles = {}
    /\ calls = <<>>
    /\ attrs = <<>>
    /\ KernelIdle /\ SincIdle

NextWisdom ==
    \/ CallReadWisdom
    \/ WisdomOpen
    \/ WisdomImport
    \/ WisdomClose
    \/ WisdomPublish

SpecWisdom == InitWisdom /\ [][NextWisdom]_vars

----------------------------------------------------------------------------
(* sinc *)

\* a float or double argument: a number of magnitude mag/2 with its sign
\* bit (so that +0.0 and -0.0 are two values), an infinity or a NaN
Floats ==
    [kind : {"num"}, neg : BOOLEAN, mag : 0 .. MaxMag]
    \cup [kind : {"inf"}, neg : BOOLEAN, mag : {0}]
    \cup [kind : {"nan"}, neg : {FALSE}, mag : {0}]

PlusZero == [kind |-> "num", neg |-> FALSE, mag |-> 0]

\* the comparison a == b of two floating-point values: a NaN equals
\* nothing, and the two zeros are equal
FloatEq(a, b) ==
    /\ a.kind # "nan" /\ b.kind # "nan"
    /\ \/ a = b
       \/ a.kind = "num" /\ b.kind = "num" /\ a.mag = 0 /\ b.mag = 0

\* the value 1.0 of overload p
One(p) == [how |-> "const", arg |-> [kind |-> "num", neg |-> FALSE, mag |-> 2],
           prec |-> p]

\* the value of sin(a*NPY_PI)/(a*NPY_PI), computed in double and returned
\* as overload p returns it
Quotient(a, p) == [how |-> "sin(x*NPY_PI)/(x*NPY_PI)", arg |-> a, prec |-> p]

sincRest == UNCHANGED <<kernelVars, wisdomVars>>

\* the test done on the bits of x, which tells -0.0 from 0.0
SincTestBitwise ==
    /\ spc = "call"
    /\ spc' = IF sx = PlusZero THEN "one" ELSE "quotient"
    /\ UNCHANGED <<sx, sprec, sret, quotEvals>>
    /\ sincRest

\* if(x == 0.0)
SincTest ==
    /\ spc = "call"
    /\ spc' = IF FloatEq(sx, PlusZero) THEN "one" ELSE "quotient"
    /\ UNCHANGED <<sx, sprec, sret, quotEvals>>
    /\ sincRest

\* return 1.0;
SincReturnOne ==
    /\ spc = "one"
    /\ sret' = One(sprec)
    /\ spc' = "done"
    /\ UNCHANGED <<sx, sprec, quotEvals>>
    /\ sincRest

\* return sin(x*NPY_PI)/(x*NPY_PI);
SincReturnQuotient ==
    /\ spc = "quotient"
    /\ sret' = Quotient(sx, sprec)
    /\ quotEvals' = quotEvals + 1
    /\ spc' = "done"
    /\ UNCHANGED <<sx, sprec>>
    /\ sincRest

InitSinc ==
    /\ sx \in Floats
    /\ sprec \in {"float", "double"}
    /\ spc = "call"
    /\ sret = [how |-> "none", arg |-> sx, prec |-> sprec]
    /\ quotEvals = 0
    /\ KernelIdle /\ WisdomIdle

NextSinc == SincTest \/ SincReturnOne \/ SincReturnQuotient

SpecSinc == InitSinc /\ [][NextSinc]_vars

----------------------------------------------------------------------------
(* Mathematical definitions the kernels are compared with *)

\* conj(x) * y written out: (a - bi)(c + di)
HermitianTerm(x, y) ==
    C(x.re * y.re + x.im * y.im, x.re * y.im - x.im * y.re)

\* the sum over i = 0 .. n-1 of conj(X[i*incX]) * Y[i*incY], added in the
\* order i = 0, 1, ..., n-1
RECURSIVE HermitianSum(_, _, _, _, _, _)
HermitianSum(m, n, X0, incX, Y0, incY) ==
    IF n = 0
    THEN Zero
    ELSE CAdd(HermitianSum(m, n - 1, X0, incX, Y0, incY),
              HermitianTerm(m[X0 + (n - 1) * incX], m[Y0 + (n - 1) * incY]))

\* the sum over i = 0 .. n-1 of abs2(X[i]) for a unit-stride view
RECURSIVE PowerSum(_, _, _)
PowerSum(m, n, X0) ==
    IF n = 0 THEN 0 ELSE PowerSum(m, n - 1, X0) + abs2(m[X0 + n - 1])

\* buffer m with the N elements starting at lo in reverse order
ReverseView(m, lo, N) ==
    [k \in DOMAIN m |-> IF lo <= k /\ k <= lo + N - 1
                        THEN m[2 * lo + N - 1 - k]
                        ELSE m[k]]

InScenario(f) ==
    /\ mem0 = ScenarioMem
    /\ f.N = 2 /\ f.X0 = 0 /\ f.incX = 1 /\ f.Y0 = 2 /\ f.incY = 1

----------------------------------------------------------------------------
(* Claims about blas_dotc_sub, checked under SpecDotc *)

\* C1: for nonzero strides, the value blas_dotc_sub has written to out when
\* it returns is the sum over i = 0..N-1 of conj(X[i*incX]) * Y[i*incY]; it
\* is zero when N = 0, and 1 - i in the scenario X = [1+2i, 3-1i],
\* Y = [2+0i, 0+1i] with unit strides.
C1_DotcIsHermitianSum ==
    \A t \in DOMAIN th :
        LET f == th[t] IN
        (f.op = "dotc" /\ f.pc = "done" /\ f.incX # 0 /\ f.incY # 0) =>
            /\ f.writes = 1
            /\ f.dotc = HermitianSum(mem0, f.N, f.X0, f.incX, f.Y0, f.incY)
            /\ f.N = 0 => f.dotc = Zero
            /\ InScenario(f) => f.dotc = C(1, -1)

C1_Witness ==
    /\ th[1].op = "dotc" /\ th[1].pc = "done"
    /\ InScenario(th[1])
    /\ th[1].dotc = C(1, -1)

\* C2: the accumulator starts at zero and after k iterations holds the sum
\* of the products for i = 0 .. k-1, added in that order; out is written
\* exactly once, after all N products have been added, and never holds a
\* partial sum.
C2_DotcAccumulatesInOrder ==
    \A t \in DOMAIN th :
        LET f == th[t] IN
        f.op = "dotc" =>
            /\ f.pc = "entry" => (f.writes = 0 /\ f.log = <<>>)
            /\ f.pc # "entry" =>
                  /\ Len(f.log) = f.i
                  /\ f.i <= f.N
                  /\ \A k \in 1 .. Len(f.log) :
                        f.log[k] = <<f.X0 + (k - 1) * f.incX,
                                     f.Y0 + (k - 1) * f.incY>>
                  /\ f.accum = HermitianSum(mem0, f.i, f.X0, f.incX,
                                            f.Y0, f.incY)
            /\ f.pc = "loop" /\ f.i = 0 => f.accum = Zero
            /\ f.writes = 0 => (f.dotc = Poison /\ f.pc # "done")
            /\ f.writes # 0 =>
                  /\ f.writes = 1
                  /\ f.pc = "done"
                  /\ f.i = f.N
                  /\ f.dotc = f.accum

C2_Witness ==
    /\ th[1].op = "dotc" /\ th[1].pc = "loop"
    /\ th[1].N = 2 /\ th[1].i = 1
    /\ th[1].accum # Zero
    /\ th[1].writes = 0 /\ th[1].dotc = Poison

\* C4: a call that traverses X backwards (incX = -1, X pointing at the last
\* element) writes what the forward call (incX = +1) writes over the
\* reversed X sequence with the same Y and incY, and multiplies the same
\* (X element, Y element) pairs in the same positions.
C4_DotcReversedTraversal ==
    \A t \in DOMAIN th :
        LET f == th[t]
            lo == f.X0 - (f.N - 1)
            rev == ReverseView(mem0, lo, f.N)
        IN
        (f.op = "dotc" /\ f.pc = "done" /\ f.incX = -1) =>
            /\ f.dotc = blas_dotc_sub(rev, mem0, f.N, lo, 1, f.Y0, f.incY)
            /\ Len(f.log) = f.N
            /\ \A k \in 1 .. f.N :
                  /\ mem0[f.log[k][1]] = rev[lo + (k - 1)]
                  /\ f.log[k][2] = f.Y0 + (k - 1) * f.incY

C4_Witness ==
    /\ th[1].op = "dotc" /\ th[1].pc = "done"
    /\ th[1].incX = -1 /\ th[1].N = 2
    /\ mem0[th[1].X0] # mem0[th[1].X0 - 1]
    /\ th[1].dotc # Zero

\* C5: the unit-stride self dot product is the sum of abs2(X[i]): its
\* imaginary part is zero and its real part is not negative.
C5_DotcSelfIsPower ==
    \A t \in DOMAIN th :
        LET f == th[t] IN
        (f.op = "dotc" /\ f.pc = "done"
            /\ f.X0 = f.Y0 /\ f.incX = 1 /\ f.incY = 1) =>
            /\ f.dotc = C(PowerSum(mem0, f.N, f.X0), 0)
            /\ f.dotc.im = 0
            /\ f.dotc.re >= 0

C5_Witness ==
    /\ th[1].op = "dotc" /\ th[1].pc = "done"
    /\ th[1].X0 = th[1].Y0 /\ th[1].incX = 1 /\ th[1].incY = 1
    /\ th[1].N = 2
    /\ mem0[th[1].X0].im # 0 /\ mem0[th[1].X0].re # 0
    /\ th[1].dotc.re > 0

----------------------------------------------------------------------------
(* Claims about blas_scal, checked under SpecScal *)

\* the addresses blas_scal is to visit, in order
ScalOrder(f) == [k \in 1 .. f.N |-> f.X0 + (k - 1) * f.incX]

\* C3: for a nonzero stride blas_scal multiplies by alpha exactly the N
\* elements at offsets i*incX, each once, and leaves every other element of
\* the buffer as it was; with N = 0 it changes nothing, and with alpha = 1
\* the buffer ends as it began.
C3_ScalFrame ==
    \A t \in DOMAIN th :
        LET f == th[t]
            view == Offsets(f.X0, f.N, f.incX)
        IN
        f.op = "scal" =>
            /\ \A k \in Cells \ view : mem[k] = mem0[k]
            /\ f.N = 0 => mem = mem0
            /\ (f.pc = "done" /\ f.incX # 0) =>
                  /\ f.log = ScalOrder(f)
                  /\ Cardinality(view) = f.N
                  /\ \A k \in view : mem[k] = CMul(mem0[k], f.alpha)
            /\ (f.pc = "done" /\ f.alpha = C(1, 0)) => mem = mem0

C3_Witness ==
    /\ th[1].op = "scal" /\ th[1].pc = "done"
    /\ th[1].N = 2 /\ th[1].incX = -2
    /\ th[1].alpha = C(2, -1)
    /\ mem[th[1].X0] # mem0[th[1].X0]
    /\ mem[th[1].X0 - 2] # mem0[th[1].X0 - 2]
    /\ mem[th[1].X0 - 1] = mem0[th[1].X0 - 1]

----------------------------------------------------------------------------
(* Claim about concurrent calls, checked under SpecConc *)

\* the elements a call reads, and those it writes
Reads(f) ==
    IF f.op = "scal"
    THEN Offsets(f.X0, f.N, f.incX)
    ELSE Offsets(f.X0, f.N, f.incX) \cup Offsets(f.Y0, f.N, f.incY)

Writes(f) == IF f.op = "scal" THEN Offsets(f.X0, f.N, f.incX) ELSE {}

\* no call writes an element another call reads or writes
Independent ==
    \A t \in DOMAIN th : \A u \in DOMAIN th \ {t} :
        Writes(th[t]) \cap (Reads(th[u]) \cup Writes(th[u])) = {}

\* the call of frame f run alone from buffer m: the buffer and the value of
\* out it leaves
Alone(m, f) ==
    IF f.op = "scal"
    THEN [mem |-> blas_scal(m, f.N, f.alpha, f.X0, f.incX), out |-> Poison]
    ELSE [mem |-> m,
          out |-> blas_dotc_sub(m, m, f.N, f.X0, f.incX, f.Y0, f.incY)]

\* the calls of threads t and u run one after the other, t first
OneAfterAnother(t, u) ==
    LET first == Alone(mem0, th[t])
        second == Alone(first.mem, th[u])
    IN [mem |-> second.mem, out |-> (t :> first.out) @@ (u :> second.out)]

\* C9: when no call writes what another call reads or writes, every
\* interleaving of the calls' steps ends with the buffer and the dotc
\* results that running the calls one after the other, in either order,
\* produces.
C9_ConcurrentAsSequential ==
    (DOMAIN th = Threads /\ Independent
        /\ \A t \in Threads : th[t].pc = "done") =>
        /\ mem = OneAfterAnother(1, 2).mem
        /\ mem = OneAfterAnother(2, 1).mem
        /\ \A t \in Threads :
              /\ th[t].dotc = OneAfterAnother(1, 2).out[t]
              /\ th[t].dotc = OneAfterAnother(2, 1).out[t]

C9_Witness ==
    /\ DOMAIN th = Threads /\ Independent /\ raced
    /\ \A t \in Threads : th[t].pc = "done"
    /\ th[1].op = "scal" /\ th[1].incX = 2
    /\ th[2].op = "scal" /\ th[2].incX = 2
    /\ th[1].X0 # th[2].X0
    /\ \A k \in Cells : mem[k] # mem0[k]

----------------------------------------------------------------------------
(* Claims about read_wisdom, checked under SpecWisdom *)

Made(fn) == {k \in 1 .. Len(calls) : calls[k].fn = fn}

Succeeded(fn) == \E k \in Made(fn) : calls[k].ok

\* C6: the flag read_wisdom publishes is true exactly when fopen returned a
\* handle and the import reported success; when fopen fails the import is
\* never called and the flag is false; when fopen succeeds the flag is the
\* import's success indicator.
C6_FlagIffOpenedAndImported ==
    /\ ~Succeeded("fopen") => Made("fftwf_import_wisdom_from_file") = {}
    /\ wpc = "done" =>
          /\ attrs # <<>>
          /\ attrs[Len(attrs)].value =
                (fs[filename] \in {"corrupt", "valid"}
                    /\ fftwf_import_wisdom_from_file(filename) # 0)
          /\ attrs[Len(attrs)].value =
                (Succeeded("fopen")
                    /\ Succeeded("fftwf_import_wisdom_from_file"))
          /\ ~Succeeded("fopen") => attrs[Len(attrs)].value = FALSE
          /\ Succeeded("fopen") =>
                /\ Cardinality(Made("fftwf_import_wisdom_from_file")) = 1
                /\ attrs[Len(attrs)].value =
                      Succeeded("fftwf_import_wisdom_from_file")

C6_Witness ==
    /\ wpc = "done"
    /\ fs[filename] = "valid"
    /\ Succeeded("fopen")
    /\ attrs = <<[name |-> "useWisdom", value |-> TRUE]>>

\* C7: the flag is added to the module under the name "useWisdom" exactly
\* once, when read_wisdom returns, and holds the value of status from then
\* on: nothing is added before, and nothing is added or changed after.
C7_FlagPublishedOnce ==
    /\ Len(attrs) = (IF wpc = "done" THEN 1 ELSE 0)
    /\ \A k \in 1 .. Len(attrs) :
          /\ attrs[k].name = "useWisdom"
          /\ attrs[k].value = PyBool_FromLong(status)
    /\ Cardinality(Made("PyModule_AddObject")) = Len(attrs)

C7_Witness ==
    /\ wpc = "done"
    /\ fs[filename] = "missing"
    /\ attrs = <<[name |-> "useWisdom", value |-> FALSE]>>
    /\ Cardinality(Made("PyModule_AddObject")) = 1

\* C8: read_wisdom closes the file on every path on which fopen returned a
\* handle, whether or not the import succeeded, and before it publishes the
\* flag; when fopen returned NULL it calls no fclose; no handle is open
\* once the flag is published.
C8_FileClosed ==
    /\ ~Succeeded("fopen") => (Made("fclose") = {} /\ openFiles = {})
    /\ Cardinality(openFiles) <= 1
    /\ wpc \in {"publish", "done"} =>
          /\ openFiles = {}
          /\ Cardinality(Made("fclose")) =
                (IF Succeeded("fopen") THEN 1 ELSE 0)
    /\ \A a \in Made("PyModule_AddObject") :
          /\ openFiles = {}
          /\ \A c \in Made("fclose") : c < a
          /\ Succeeded("fopen") => Made("fclose") # {}

C8_Witness ==
    /\ wpc = "done"
    /\ fs[filename] = "corrupt"
    /\ Succeeded("fopen") /\ ~Succeeded("fftwf_import_wisdom_from_file")
    /\ Made("fclose") # {}
    /\ openFiles = {}
    /\ attrs = <<[name |-> "useWisdom", value |-> FALSE]>>

----------------------------------------------------------------------------
(* Claim about sinc, checked under SpecSinc *)

\* C10: at both precisions, for an argument equal to zero sinc returns 1.0
\* without evaluating sin(pi*x)/(pi*x), and for every other argument it
\* returns that quotient.
C10_SincZeroIsOne ==
    spc = "done" =>
        /\ (sx.kind = "num" /\ sx.mag = 0) =>
              (sret = One(sprec) /\ quotEvals = 0)
        /\ ~(sx.kind = "num" /\ sx.mag = 0) =>
              (sret = Quotient(sx, sprec) /\ quotEvals = 1)

C10_Witness ==
    /\ spc = "done"
    /\ sx = [kind |-> "num", neg |-> TRUE, mag |-> 0]
    /\ sprec = "float"
    /\ sret = One("float")
    /\ quotEvals = 0

====
